---- MODULE Spec2Model ----
(***************************************************************************)
(* Model of the feed-listing service of cursorBasedPagination.js: the      *)
(* cursor codec (encodeCursor / decodeCursor), the listing handler         *)
(* GET /api/posts, post creation, the like toggle and soft deletion.       *)
(*                                                                         *)
(* Text is a sequence of character codes (ASCII), so that split, base64,   *)
(* Date parsing and ObjectId validation are computed on characters.        *)
(* A Date is its time value: milliseconds since the epoch.                 *)
(* An ObjectId is its 12 bytes.                                            *)
(***************************************************************************)
EXTENDS Integers, Sequences, FiniteSets, Bags, TLC

VARIABLES posts, pending, counter, now, dels, req, resp, walk, seen, cursor, decoded,
          likes, replies

vars == <<posts, pending, counter, now, dels, req, resp, walk, seen, cursor, decoded,
          likes, replies>>

(***************************************************************************)
(* Bounds of the model.                                                    *)
(***************************************************************************)
MaxPosts == 3

MaxTime == 1

MaxCreating == 2

MaxDeleting == 2

MaxReplies == 3

MaxLiking == 2

MaxLikes == 2

MaxLimitLen == 3

(***************************************************************************)
(* JavaScript values that are not text.                                    *)
(***************************************************************************)
Undefined == <<-1>>

Null == <<-2>>

NaN == [isNaN |-> TRUE, value |-> 0]

Num(v) == [isNaN |-> FALSE, value |-> v]

(***************************************************************************)
(* Characters.                                                             *)
(***************************************************************************)
IsDigit(c) == c >= 48 /\ c <= 57

IsHexChar(c) == IsDigit(c) \/ (c >= 97 /\ c <= 102) \/ (c >= 65 /\ c <= 70)

HexVal(c) == IF IsDigit(c) THEN c - 48 ELSE IF c >= 97 THEN c - 87 ELSE c - 55

HexChar(v) == IF v < 10 THEN 48 + v ELSE 87 + v

Pad2(n) == <<48 + (n \div 10), 48 + (n % 10)>>

Pad3(n) == <<48 + (n \div 100), 48 + ((n \div 10) % 10), 48 + (n % 10)>>

(***************************************************************************)
(* Buffer.from(text).toString('base64') and                                *)
(* Buffer.from(token, 'base64').toString('utf-8'), on ASCII text and on    *)
(* tokens made of base64 characters.                                       *)
(***************************************************************************)
B64Char(v) ==
    IF v < 26 THEN 65 + v
    ELSE IF v < 52 THEN 97 + (v - 26)
    ELSE IF v < 62 THEN 48 + (v - 52)
    ELSE IF v = 62 THEN 43 ELSE 47

B64Val(c) ==
    IF c >= 65 /\ c <= 90 THEN c - 65
    ELSE IF c >= 97 /\ c <= 122 THEN c - 71
    ELSE IF c >= 48 /\ c <= 57 THEN c + 4
    ELSE IF c = 43 \/ c = 45 THEN 62 ELSE 63

RECURSIVE Base64Encode(_)
Base64Encode(b) ==
    IF Len(b) = 0 THEN <<>>
    ELSE IF Len(b) = 1 THEN
        <<B64Char(b[1] \div 4), B64Char((b[1] % 4) * 16), 61, 61>>
    ELSE IF Len(b) = 2 THEN
        <<B64Char(b[1] \div 4),
          B64Char((b[1] % 4) * 16 + (b[2] \div 16)),
          B64Char((b[2] % 16) * 4), 61>>
    ELSE
        <<B64Char(b[1] \div 4),
          B64Char((b[1] % 4) * 16 + (b[2] \div 16)),
          B64Char((b[2] % 16) * 4 + (b[3] \div 64)),
          B64Char(b[3] % 64)>> \o Base64Encode(SubSeq(b, 4, Len(b)))

RECURSIVE StripPad(_)
StripPad(s) ==
    IF Len(s) > 0 /\ s[Len(s)] = 61 THEN StripPad(SubSeq(s, 1, Len(s) - 1))
    ELSE s

RECURSIVE DecodeSextets(_)
DecodeSextets(s) ==
    IF Len(s) < 2 THEN <<>>
    ELSE IF Len(s) = 2 THEN
        <<B64Val(s[1]) * 4 + (B64Val(s[2]) \div 16)>>
    ELSE IF Len(s) = 3 THEN
        <<B64Val(s[1]) * 4 + (B64Val(s[2]) \div 16),
          (B64Val(s[2]) % 16) * 16 + (B64Val(s[3]) \div 4)>>
    ELSE
        <<B64Val(s[1]) * 4 + (B64Val(s[2]) \div 16),
          (B64Val(s[2]) % 16) * 16 + (B64Val(s[3]) \div 4),
          (B64Val(s[3]) % 4) * 64 + B64Val(s[4])>>
        \o DecodeSextets(SubSeq(s, 5, Len(s)))

Base64Decode(s) == DecodeSextets(StripPad(s))

(***************************************************************************)
(* String.prototype.split('|').                                            *)
(***************************************************************************)
Separator == 124

RECURSIVE SplitFrom(_, _, _)
SplitFrom(s, i, cur) ==
    IF i > Len(s) THEN <<cur>>
    ELSE IF s[i] = Separator THEN <<cur>> \o SplitFrom(s, i + 1, <<>>)
    ELSE SplitFrom(s, i + 1, Append(cur, s[i]))

Split(s) == SplitFrom(s, 1, <<>>)

(***************************************************************************)
(* Date.prototype.toISOString and new Date(text).getTime().  DateParse     *)
(* reads the date-time form YYYY-MM-DDTHH:mm:ss.sssZ and answers NaN for   *)
(* any other text; the texts given to it here are of that form, empty, or  *)
(* without a digit.  toISOString is for dates within January 1970.         *)
(***************************************************************************)
MsPerDay == 86400000

DaysFromCivil(y, m, d) ==
    LET yy == IF m <= 2 THEN y - 1 ELSE y
        era == yy \div 400
        yoe == yy - era * 400
        mp == (m + 9) % 12
        doy == ((153 * mp + 2) \div 5) + d - 1
        doe == yoe * 365 + (yoe \div 4) - (yoe \div 100) + doy
    IN  era * 146097 + doe - 719468

\* variant that prints the instant to the second
toISOStringSeconds(t) ==
    LET s == (t \div 1000) % 60
        m == (t \div 60000) % 60
        h == (t \div 3600000) % 24
        day == t \div MsPerDay
    IN  <<49, 57, 55, 48, 45, 48, 49, 45>> \o Pad2(day + 1) \o <<84>>
        \o Pad2(h) \o <<58>> \o Pad2(m) \o <<58>> \o Pad2(s) \o <<46>>
        \o Pad3(0) \o <<90>>

toISOString(t) ==
    LET ms == t % 1000
        s == (t \div 1000) % 60
        m == (t \div 60000) % 60
        h == (t \div 3600000) % 24
        day == t \div MsPerDay
    IN  <<49, 57, 55, 48, 45, 48, 49, 45>> \o Pad2(day + 1) \o <<84>>
        \o Pad2(h) \o <<58>> \o Pad2(m) \o <<58>> \o Pad2(s) \o <<46>>
        \o Pad3(ms) \o <<90>>

Digits(s, from, to) == \A k \in from..to : IsDigit(s[k])

RECURSIVE DecVal(_)
DecVal(s) ==
    IF Len(s) = 0 THEN 0
    ELSE DecVal(SubSeq(s, 1, Len(s) - 1)) * 10 + (s[Len(s)] - 48)

DateParse(s) ==
    IF /\ Len(s) = 24
       /\ Digits(s, 1, 4) /\ s[5] = 45 /\ Digits(s, 6, 7) /\ s[8] = 45
       /\ Digits(s, 9, 10) /\ s[11] = 84 /\ Digits(s, 12, 13) /\ s[14] = 58
       /\ Digits(s, 15, 16) /\ s[17] = 58 /\ Digits(s, 18, 19) /\ s[20] = 46
       /\ Digits(s, 21, 23) /\ s[24] = 90
    THEN LET y == DecVal(SubSeq(s, 1, 4))
             mo == DecVal(SubSeq(s, 6, 7))
             d == DecVal(SubSeq(s, 9, 10))
             h == DecVal(SubSeq(s, 12, 13))
             mi == DecVal(SubSeq(s, 15, 16))
             se == DecVal(SubSeq(s, 18, 19))
             ms == DecVal(SubSeq(s, 21, 23))
         IN  IF mo >= 1 /\ mo <= 12 /\ d >= 1 /\ d <= 31
                /\ h <= 23 /\ mi <= 59 /\ se <= 59
             THEN Num(DaysFromCivil(y, mo, d) * MsPerDay
                      + ((h * 60 + mi) * 60 + se) * 1000 + ms)
             ELSE NaN
    ELSE NaN

(***************************************************************************)
(* mongoose.Types.ObjectId: isValid (24 hex characters, or any 12          *)
(* characters, read as the 12 bytes), construction from text, toString,    *)
(* and the byte order the store compares ids by.                           *)
(***************************************************************************)
ObjectIdIsValid(id) ==
    \/ Len(id) = 12
    \/ Len(id) = 24 /\ \A k \in 1..24 : IsHexChar(id[k])

ObjectIdFrom(id) ==
    IF Len(id) = 24
    THEN [k \in 1..12 |-> HexVal(id[2 * k - 1]) * 16 + HexVal(id[2 * k])]
    ELSE id

ObjectIdToString(oid) ==
    [k \in 1..24 |-> IF k % 2 = 1 THEN HexChar(oid[(k + 1) \div 2] \div 16)
                                  ELSE HexChar(oid[k \div 2] % 16)]

RECURSIVE OidLessFrom(_, _, _)
OidLessFrom(a, b, k) ==
    IF k > 12 THEN FALSE
    ELSE IF a[k] # b[k] THEN a[k] < b[k]
    ELSE OidLessFrom(a, b, k + 1)

OidLess(a, b) == OidLessFrom(a, b, 1)

NewObjectId(n) == [k \in 1..12 |-> IF k = 12 THEN n ELSE 0]

(***************************************************************************)
(* encodeCursor and decodeCursor.                                          *)
(***************************************************************************)
encodeCursor(createdAt, id) ==
    Base64Encode(toISOString(createdAt) \o <<Separator>> \o ObjectIdToString(id))

Falsy(s) == s = Undefined \/ s = <<>>

Thrown(message) ==
    [ok |-> FALSE, message |-> message, createdAt |-> 0, id |-> <<>>]

\* variant of the checks that leaves out ObjectId.isValid
decodeChecksNoIdCheck(createdAt, id, date) ==
    IF Falsy(createdAt) \/ Falsy(id) THEN Thrown("Invalid cursor format")
    ELSE IF date.isNaN THEN Thrown("Invalid date in cursor")
    ELSE [ok |-> TRUE, message |-> "", createdAt |-> date.value, id |-> id]

decodeChecks(createdAt, id, date) ==
    IF Falsy(createdAt) \/ Falsy(id) THEN Thrown("Invalid cursor format")
    ELSE IF date.isNaN THEN Thrown("Invalid date in cursor")
    ELSE IF ~ObjectIdIsValid(id) THEN Thrown("Invalid ObjectId in cursor")
    ELSE [ok |-> TRUE, message |-> "", createdAt |-> date.value, id |-> id]

decodeParts(createdAt, id) == decodeChecks(createdAt, id, DateParse(createdAt))

Destructure(parts) ==
    decodeParts(parts[1], IF Len(parts) >= 2 THEN parts[2] ELSE Undefined)

decodeCursorTry(c) == Destructure(Split(Base64Decode(c)))

\* variant that lets the inner error through
RethrowCause(r) == r

Rethrow(r) == IF r.ok THEN r ELSE Thrown("Malformed cursor")

decodeCursor(c) == Rethrow(decodeCursorTry(c))

(***************************************************************************)
(* parseInt(text) with no radix argument.                                  *)
(***************************************************************************)
IsSpace(c) == c = 32 \/ (c >= 9 /\ c <= 13)

RECURSIVE TrimStart(_)
TrimStart(s) ==
    IF Len(s) > 0 /\ IsSpace(s[1]) THEN TrimStart(SubSeq(s, 2, Len(s))) ELSE s

RECURSIVE DigitPrefix(_, _)
DigitPrefix(s, hex) ==
    IF Len(s) > 0 /\ (IF hex THEN IsHexChar(s[1]) ELSE IsDigit(s[1]))
    THEN <<s[1]>> \o DigitPrefix(SubSeq(s, 2, Len(s)), hex)
    ELSE <<>>

RECURSIVE HexNum(_)
HexNum(s) ==
    IF Len(s) = 0 THEN 0
    ELSE HexNum(SubSeq(s, 1, Len(s) - 1)) * 16 + HexVal(s[Len(s)])

parseInt(p) ==
    IF p = Undefined THEN NaN
    ELSE LET t == TrimStart(p)
             neg == Len(t) > 0 /\ t[1] = 45
             signed == Len(t) > 0 /\ (t[1] = 45 \/ t[1] = 43)
             u == IF signed THEN SubSeq(t, 2, Len(t)) ELSE t
             hex == Len(u) >= 2 /\ u[1] = 48 /\ (u[2] = 120 \/ u[2] = 88)
             v == IF hex THEN SubSeq(u, 3, Len(u)) ELSE u
             ds == DigitPrefix(v, hex)
             n == IF hex THEN HexNum(ds) ELSE DecVal(ds)
         IN  IF Len(ds) = 0 THEN NaN
             ELSE Num(IF neg THEN 0 - n ELSE n)

(***************************************************************************)
(* The effective page size: Math.min(parseInt(req.query.limit) || 10, 50). *)
(***************************************************************************)
DefaultLimit == 10

MaxPageSize == 50

EffectiveLimit(p) ==
    LET n == parseInt(p)
        x == IF n.isNaN \/ n.value = 0 THEN DefaultLimit ELSE n.value
    IN  IF x < MaxPageSize THEN x ELSE MaxPageSize

(***************************************************************************)
(* Post.find(query).sort({createdAt: -1, _id: -1}).limit(n).lean()         *)
(***************************************************************************)
Before(p, q) ==
    \/ p.createdAt > q.createdAt
    \/ p.createdAt = q.createdAt /\ OidLess(q._id, p._id)

RECURSIVE SortDesc(_)
SortDesc(S) ==
    IF S = {} THEN <<>>
    ELSE LET m == CHOOSE x \in S : \A y \in S \ {x} : Before(x, y)
         IN  <<m>> \o SortDesc(S \ {m})

\* variants of the query predicate: without the tie-break on _id, with the
\* boundary post included, in the simpler conjunctive form, and without the
\* cursor condition
MatchesNoTie(p, hasCursor, createdAt, oid) ==
    /\ ~p.isDeleted
    /\ hasCursor => p.createdAt < createdAt

MatchesInclusive(p, hasCursor, createdAt, oid) ==
    /\ ~p.isDeleted
    /\ hasCursor =>
         \/ p.createdAt < createdAt
         \/ p.createdAt = createdAt /\ ~OidLess(oid, p._id)

MatchesConjunctive(p, hasCursor, createdAt, oid) ==
    /\ ~p.isDeleted
    /\ hasCursor => (p.createdAt <= createdAt /\ OidLess(p._id, oid))

MatchesNoCursor(p, hasCursor, createdAt, oid) == ~p.isDeleted

\* variant of the predicate without the isDeleted condition
MatchesDeleted(p, hasCursor, createdAt, oid) ==
    hasCursor =>
        \/ p.createdAt < createdAt
        \/ p.createdAt = createdAt /\ OidLess(p._id, oid)

Matches(p, hasCursor, createdAt, oid) ==
    /\ ~p.isDeleted
    /\ hasCursor =>
         \/ p.createdAt < createdAt
         \/ p.createdAt = createdAt /\ OidLess(p._id, oid)

\* limit(0) is no limit; a negative limit is its absolute value
Limited(s, n) ==
    LET k == IF n < 0 THEN 0 - n ELSE n
    IN  IF n = 0 \/ Len(s) <= k THEN s ELSE SubSeq(s, 1, k)

Find(db, hasCursor, createdAt, oid, n) ==
    Limited(SortDesc({p \in db : Matches(p, hasCursor, createdAt, oid)}), n)

(***************************************************************************)
(* app.get('/api/posts'): the response to one listing request.             *)
(***************************************************************************)
ErrorResponse(status, error, message, queries) ==
    [status |-> status, error |-> error, message |-> message,
     posts |-> <<>>, nextCursor |-> Null, hasMore |-> FALSE,
     limit |-> 0, count |-> 0, queries |-> queries, fetched |-> 0]

Transform(post) == [id |-> post._id, createdAt |-> post.createdAt]

NoCursor == [ok |-> TRUE, message |-> "", createdAt |-> 0, id |-> <<>>]

Respond(limit, hasMore, slicedPosts, fetched) ==
    [status |-> 200, error |-> "", message |-> "",
     posts |-> [k \in 1..Len(slicedPosts) |-> Transform(slicedPosts[k])],
     nextCursor |->
         IF hasMore /\ Len(slicedPosts) > 0
         THEN encodeCursor(slicedPosts[Len(slicedPosts)].createdAt,
                           slicedPosts[Len(slicedPosts)]._id)
         ELSE Null,
     hasMore |-> hasMore, limit |-> limit, count |-> Len(slicedPosts),
     queries |-> 1, fetched |-> fetched]

Paginate(limit, found) ==
    Respond(limit, Len(found) > limit,
            IF Len(found) > limit THEN SubSeq(found, 1, Len(found) - 1)
            ELSE found,
            Len(found))

\* variant of the handler that queries although the cursor failed to decode
ResolveBadCursorAsNone(limit, hasCursor, dec, db, dbOk) ==
    IF ~dbOk
    THEN ErrorResponse(500, "Internal server error", "Failed to fetch posts", 1)
    ELSE Paginate(limit, Find(db, hasCursor /\ dec.ok, dec.createdAt,
                              ObjectIdFrom(dec.id), limit + 1))

Resolve(limit, hasCursor, dec, db, dbOk) ==
    IF ~dec.ok
    THEN ErrorResponse(400, "Invalid cursor", dec.message, 0)
    ELSE IF ~dbOk
    THEN ErrorResponse(500, "Internal server error", "Failed to fetch posts", 1)
    ELSE Paginate(limit, Find(db, hasCursor, dec.createdAt,
                              ObjectIdFrom(dec.id), limit + 1))

GetPosts(limitParam, after, db, dbOk) ==
    Resolve(EffectiveLimit(limitParam), ~Falsy(after),
            IF Falsy(after) THEN NoCursor ELSE decodeCursor(after), db, dbOk)

(***************************************************************************)
(* Inputs of the requests.                                                 *)
(***************************************************************************)
Users == {1, 2}

Authors == {1}

Times == 0..MaxTime

LimitParams == {Undefined, <<49>>, <<50>>, <<45, 49>>}

WalkLimits == {<<49>>, <<50>>, <<53, 48>>}

IdText(n) == ObjectIdToString(NewObjectId(n))

RECURSIVE Join(_)
Join(parts) ==
    IF Len(parts) = 0 THEN <<>>
    ELSE IF Len(parts) = 1 THEN parts[1]
    ELSE parts[1] \o <<Separator>> \o Join(SubSeq(parts, 2, Len(parts)))

(***************************************************************************)
(* The collections the service can hold: ids are handed out in order, and  *)
(* createdAt is read from a clock that does not go back.                   *)
(***************************************************************************)
\* likes of a new document: the schema's defaults
NoLikes == [count |-> 0, userIds |-> <<>>]

Absent == <<-1, FALSE>>

PostChoices == [1..MaxPosts -> {Absent} \cup (Times \X BOOLEAN)]

CollectionOf(f) ==
    {[_id |-> NewObjectId(n), createdAt |-> f[n][1], isDeleted |-> f[n][2],
      user |-> 1, likes |-> NoLikes, __v |-> 0] : n \in {m \in 1..MaxPosts : f[m] # Absent}}

Collections ==
    {CollectionOf(f) :
        f \in {g \in PostChoices :
                 \A m \in 1..MaxPosts, n \in 1..MaxPosts :
                     (m < n /\ g[m] # Absent /\ g[n] # Absent)
                         => g[m][1] <= g[n][1]}}

RECURSIVE SetMax(_)
SetMax(S) ==
    IF S = {} THEN 0
    ELSE LET x == CHOOSE y \in S : TRUE
             m == SetMax(S \ {x})
         IN  IF x > m THEN x ELSE m

(***************************************************************************)
(* State after start-up: an empty collection, no request in flight.        *)
(***************************************************************************)
NoRequest == [limit |-> Undefined, after |-> Undefined, sent |-> FALSE]

NoResponse == ErrorResponse(0, "", "", 0)

NotSeen == [first |-> {}, last |-> {}]

NotDecoded == [ok |-> FALSE, message |-> "", createdAt |-> 0, id |-> <<>>]

Init ==
    /\ posts = {}
    /\ pending = {}
    /\ counter = 0
    /\ now = 0
    /\ dels = EmptyBag
    /\ req = NoRequest
    /\ resp = NoResponse
    /\ walk = <<>>
    /\ seen = NotSeen
    /\ cursor = <<>>
    /\ decoded = NotDecoded
    /\ likes = EmptyBag
    /\ replies = EmptyBag

(***************************************************************************)
(* The clock read by Date.now.                                             *)
(***************************************************************************)
Tick ==
    /\ now < MaxTime
    /\ now' = now + 1
    /\ UNCHANGED <<posts, pending, counter, dels, req, resp, walk, seen,
                   cursor, decoded,
                   likes, replies>>

(***************************************************************************)
(* app.post('/api/posts'): new Post(...) takes its _id and createdAt,      *)
(* then save() inserts it.                                                 *)
(***************************************************************************)
CreateNew(userId) ==
    /\ counter < MaxPosts
    /\ Cardinality(pending) < MaxCreating
    /\ counter' = counter + 1
    /\ pending' = pending \cup {[_id |-> NewObjectId(counter + 1),
                                 createdAt |-> now, isDeleted |-> FALSE,
                                 user |-> userId, likes |-> NoLikes,
                                 __v |-> 0]}
    /\ UNCHANGED <<posts, now, dels, req, resp, walk, seen, cursor, decoded,
                   likes, replies>>

CreateSave(post) ==
    /\ post \in pending
    /\ pending' = pending \ {post}
    /\ posts' = posts \cup {post}
    /\ UNCHANGED <<counter, now, dels, req, resp, walk, seen, cursor, decoded,
                   likes, replies>>

(***************************************************************************)
(* app.delete('/api/posts/:postId'): findById and the checks, which end    *)
(* the request with 404 or 403 or let it through, then save() of the       *)
(* document with isDeleted set and the success reply.  Requests in flight   *)
(* and replies are bags: two requests can carry the same ids.              *)
(***************************************************************************)
DeleteReply(postId, userId, status) ==
    [postId |-> postId, userId |-> userId, status |-> status]

DeleteFind(postId, userId) ==
    /\ BagCardinality(dels) < MaxDeleting
    /\ \E post \in posts :
         /\ post._id = postId
         /\ ~post.isDeleted
         /\ post.user = userId
    /\ dels' = dels (+) SetToBag({[postId |-> postId, userId |-> userId]})
    /\ UNCHANGED <<posts, pending, counter, now, req, resp, walk, seen,
                   cursor, decoded, likes, replies>>

DeleteNotFound(postId, userId) ==
    /\ BagCardinality(replies) < MaxReplies
    /\ \A post \in posts : post._id = postId => post.isDeleted
    /\ replies' = replies (+) SetToBag({DeleteReply(postId, userId, 404)})
    /\ UNCHANGED <<posts, pending, counter, now, dels, req, resp, walk, seen,
                   cursor, decoded, likes>>

DeleteForbidden(postId, userId) ==
    /\ BagCardinality(replies) < MaxReplies
    /\ \E post \in posts :
         /\ post._id = postId
         /\ ~post.isDeleted
         /\ post.user # userId
    /\ replies' = replies (+) SetToBag({DeleteReply(postId, userId, 403)})
    /\ UNCHANGED <<posts, pending, counter, now, dels, req, resp, walk, seen,
                   cursor, decoded, likes>>

DeleteSave(del) ==
    /\ BagIn(del, dels)
    /\ dels' = dels (-) SetToBag({del})
    /\ posts' = {IF post._id = del.postId
                 THEN [post EXCEPT !.isDeleted = TRUE] ELSE post
                 : post \in posts}
    /\ replies' = replies (+) SetToBag({DeleteReply(del.postId, del.userId, 200)})
    /\ UNCHANGED <<pending, counter, now, req, resp, walk, seen, cursor, decoded,
                   likes>>

(***************************************************************************)
(* app.post('/api/posts/:postId/like'): findById and the 404 check, then   *)
(* the toggle on the document in hand and save().  save() sends only what  *)
(* the handler changed: push() becomes a $push on the stored array, the    *)
(* assignments become $set of likes.count and, when unliking, of the whole *)
(* array, which the driver guards with the version read (a mismatch        *)
(* raises VersionError and stores nothing); either way __v goes up by one. *)
(***************************************************************************)
RECURSIVE Versions(_)
Versions(db) ==
    IF db = {} THEN 0
    ELSE LET p == CHOOSE q \in db : TRUE
         IN  p.__v + Versions(db \ {p})

hasLiked(doc, userId) ==
    \E k \in 1..Len(doc.likes.userIds) : doc.likes.userIds[k] = userId

Without(userIds, userId) == SelectSeq(userIds, LAMBDA id : id # userId)

Max(a, b) == IF a > b THEN a ELSE b

LikeFind(postId, userId) ==
    /\ BagCardinality(likes) < MaxLiking
    /\ Versions(posts) + BagCardinality(likes) < MaxLikes
    /\ \E post \in posts :
         /\ post._id = postId
         /\ ~post.isDeleted
         /\ likes' = likes (+) SetToBag({[postId |-> postId, userId |-> userId,
                                         doc |-> post]})
    /\ UNCHANGED <<posts, pending, counter, now, dels, req, resp, walk, seen,
                   cursor, decoded, replies>>

Unliked(stored, doc, userId) ==
    IF stored.__v # doc.__v THEN stored
    ELSE [stored EXCEPT !.likes = [count |-> Max(0, doc.likes.count - 1),
                                   userIds |-> Without(doc.likes.userIds, userId)],
                        !.__v = stored.__v + 1]

Liked(stored, doc, userId) ==
    [stored EXCEPT !.likes = [count |-> doc.likes.count + 1,
                              userIds |-> Append(stored.likes.userIds, userId)],
                   !.__v = stored.__v + 1]

Toggled(stored, doc, userId) ==
    IF hasLiked(doc, userId) THEN Unliked(stored, doc, userId)
    ELSE Liked(stored, doc, userId)

\* variant of save() that writes every field of the document in hand
LikeSaveWholeDocument(like) ==
    /\ BagIn(like, likes)
    /\ likes' = likes (-) SetToBag({like})
    /\ posts' = {IF post._id = like.postId
                 THEN [Toggled(post, like.doc, like.userId)
                          EXCEPT !.isDeleted = like.doc.isDeleted]
                 ELSE post
                 : post \in posts}
    /\ UNCHANGED <<pending, counter, now, dels, req, resp, walk, seen,
                   cursor, decoded, replies>>

LikeSave(like) ==
    /\ BagIn(like, likes)
    /\ likes' = likes (-) SetToBag({like})
    /\ posts' = {IF post._id = like.postId
                 THEN Toggled(post, like.doc, like.userId) ELSE post
                 : post \in posts}
    /\ UNCHANGED <<pending, counter, now, dels, req, resp, walk, seen,
                   cursor, decoded, replies>>

(***************************************************************************)
(* A walk: the client's first request carries no cursor, each later one    *)
(* the nextCursor of the page before.  seen keeps the ids the collection   *)
(* held when the first and the latest query of the walk ran.               *)
(***************************************************************************)
Page(r) ==
    [posts |-> r.posts, nextCursor |-> r.nextCursor, hasMore |-> r.hasMore,
     limit |-> r.limit]

Ids(db) == {p._id : p \in db}

FirstPage(r, db) ==
    /\ walk' = IF r.status = 200 THEN <<Page(r)>> ELSE <<>>
    /\ seen' = IF r.status = 200 THEN [first |-> Ids(db), last |-> Ids(db)]
               ELSE NotSeen

NextPage(r, db) ==
    /\ walk' = IF r.status = 200 THEN Append(walk, Page(r)) ELSE walk
    /\ seen' = IF r.status = 200 THEN [seen EXCEPT !.last = Ids(db)] ELSE seen

GetFirst(limitParam, dbOk) ==
    /\ FirstPage(GetPosts(limitParam, Undefined, posts, dbOk), posts)
    /\ UNCHANGED <<posts, pending, counter, now, dels, req, resp,
                   cursor, decoded,
                   likes, replies>>

GetNext(limitParam, dbOk) ==
    /\ Len(walk) > 0
    /\ walk[Len(walk)].nextCursor # Null
    /\ NextPage(GetPosts(limitParam, walk[Len(walk)].nextCursor, posts, dbOk),
                posts)
    /\ UNCHANGED <<posts, pending, counter, now, dels, req, resp,
                   cursor, decoded,
                   likes, replies>>

(***************************************************************************)
(* One listing request seen from outside: the client sends it, the handler *)
(* answers it, the client takes the answer.                                *)
(***************************************************************************)
Request(limitParam, after) ==
    /\ ~req.sent
    /\ req' = [limit |-> limitParam, after |-> after, sent |-> TRUE]
    /\ UNCHANGED <<posts, pending, counter, now, dels, resp, walk, seen,
                   cursor, decoded,
                   likes, replies>>

\* variant of the handler that keeps the last nextCursor on the server
HandleKeepingCursor(dbOk) ==
    /\ req.sent
    /\ resp.status = 0
    /\ resp' = GetPosts(req.limit, req.after, posts, dbOk)
    /\ cursor' = IF resp'.nextCursor = Null THEN cursor ELSE resp'.nextCursor
    /\ UNCHANGED <<posts, pending, counter, now, dels, req, walk, seen,
                   decoded, likes, replies>>

Handle(dbOk) ==
    /\ req.sent
    /\ resp.status = 0
    /\ resp' = GetPosts(req.limit, req.after, posts, dbOk)
    /\ UNCHANGED <<posts, pending, counter, now, dels, req, walk, seen,
                   cursor, decoded,
                   likes, replies>>

Deliver ==
    /\ resp.status # 0
    /\ req' = NoRequest
    /\ resp' = NoResponse
    /\ UNCHANGED <<posts, pending, counter, now, dels, walk, seen,
                   cursor, decoded,
                   likes, replies>>

(***************************************************************************)
(* decodeCursor applied to a token.                                        *)
(***************************************************************************)
Decode ==
    /\ decoded = NotDecoded
    /\ decoded' = decodeCursor(cursor)
    /\ UNCHANGED <<posts, pending, counter, now, dels, req, resp, walk, seen,
                   cursor,
                   likes, replies>>

(***************************************************************************)
(* encodeCursor applied to a stored post, as the handler applies it to the *)
(* last post of a page.                                                    *)
(***************************************************************************)
Encode(lastPost) ==
    /\ cursor = <<>>
    /\ cursor' = encodeCursor(lastPost.createdAt, lastPost._id)
    /\ UNCHANGED <<posts, pending, counter, now, dels, req, resp, walk, seen,
                   decoded, likes, replies>>

(***************************************************************************)
(* Tokens and limit parameters a caller can send.                          *)
(***************************************************************************)
BadDateText ==
    <<49, 57, 55, 48, 45, 49, 51, 45, 48, 49, 84, 48, 48, 58, 48, 48, 58,
      48, 48, 46, 48, 48, 48, 90>>

NonHexIdText == [k \in 1..24 |-> IF k = 24 THEN 103 ELSE 48]

TwelveCharText == [k \in 1..12 |-> 96 + k]

\* texts for the part before the first separator, and for the parts after it
TimestampTexts ==
    {<<>>, <<120>>, toISOString(0), toISOString(MaxTime), BadDateText}

IdTexts == {<<>>, <<120>>, IdText(1), NonHexIdText, TwelveCharText}

MaxParts == 3

PartLists ==
    UNION {{parts \in [1..n -> TimestampTexts \cup IdTexts] :
               /\ parts[1] \in TimestampTexts
               /\ \A k \in 2..n : parts[k] \in IdTexts}
           : n \in 1..MaxParts}

CursorPool == {Base64Encode(Join(parts)) : parts \in PartLists}

RequestCursors ==
    {Undefined, <<>>,
     Base64Encode(<<120>>),
     Base64Encode(Join(<<BadDateText, IdText(1)>>)),
     Base64Encode(Join(<<toISOString(0), NonHexIdText>>)),
     Base64Encode(Join(<<toISOString(0), IdText(2), <<120>>>>)),
     Base64Encode(Join(<<toISOString(MaxTime), TwelveCharText>>))}
    \cup {encodeCursor(t, NewObjectId(n)) : t \in Times, n \in 1..MaxPosts}

LimitAlphabet == {45, 48, 49, 53, 120}

WideLimits ==
    {Undefined} \cup UNION {[1..n -> LimitAlphabet] : n \in 0..MaxLimitLen}

(***************************************************************************)
(* Specifications.  Spec: walks among concurrent creations and deletions.  *)
(* SpecWalk: walks over a collection that does not change.  SpecRequest:   *)
(* single requests against any collection.  SpecLimit: the limit parameter *)
(* against a full collection.  SpecCodec: decodeCursor on tokens.          *)
(* SpecRoundTrip: encodeCursor, then decodeCursor, on stored positions.    *)
(* SpecWrites: creations, likes and deletions with listings.  SpecLike:    *)
(* like requests alone.  SpecDelete: delete requests alone.                *)
(***************************************************************************)
InitCollection ==
    /\ posts \in Collections
    /\ pending = {}
    /\ counter = SetMax({p._id[12] : p \in posts})
    /\ now = SetMax({p.createdAt : p \in posts})
    /\ dels = EmptyBag
    /\ req = NoRequest
    /\ resp = NoResponse
    /\ walk = <<>>
    /\ seen = NotSeen
    /\ cursor = <<>>
    /\ decoded = NotDecoded
    /\ likes = EmptyBag
    /\ replies = EmptyBag

FullCollection ==
    {[_id |-> NewObjectId(n), createdAt |-> 0, isDeleted |-> FALSE, user |-> 1,
      likes |-> NoLikes, __v |-> 0]
        : n \in 1..MaxPosts}

InitLimit ==
    /\ posts = FullCollection
    /\ pending = {}
    /\ counter = MaxPosts
    /\ now = 0
    /\ dels = EmptyBag
    /\ req = NoRequest
    /\ resp = NoResponse
    /\ walk = <<>>
    /\ seen = NotSeen
    /\ cursor = <<>>
    /\ decoded = NotDecoded
    /\ likes = EmptyBag
    /\ replies = EmptyBag

InitCodec ==
    /\ posts = {}
    /\ pending = {}
    /\ counter = 0
    /\ now = 0
    /\ dels = EmptyBag
    /\ req = NoRequest
    /\ resp = NoResponse
    /\ walk = <<>>
    /\ seen = NotSeen
    /\ cursor \in CursorPool
    /\ decoded = NotDecoded
    /\ likes = EmptyBag
    /\ replies = EmptyBag

\* instants and ids that exercise every field of the timestamp and both hex
\* digits of a byte
RoundTripTimes ==
    {0, 1, 9, 10, 999, 1000, 59999, 60000, 3599999, 3600000,
     MsPerDay - 1, MsPerDay, 23 * MsPerDay + 45296789}

RoundTripIds ==
    {NewObjectId(n) : n \in {1, 9, 10, 16, 255}}
    \cup {[k \in 1..12 |-> b] : b \in {0, 171, 255}}
    \cup {[k \in 1..12 |-> 17 * k], [k \in 1..12 |-> 256 - 20 * k]}

InitRoundTrip ==
    /\ posts \in {{[_id |-> i, createdAt |-> t, isDeleted |-> FALSE, user |-> 1,
                     likes |-> NoLikes, __v |-> 0]}
                   : t \in RoundTripTimes, i \in RoundTripIds}
    /\ pending = {}
    /\ counter = MaxPosts
    /\ now = SetMax({p.createdAt : p \in posts})
    /\ dels = EmptyBag
    /\ req = NoRequest
    /\ resp = NoResponse
    /\ walk = <<>>
    /\ seen = NotSeen
    /\ cursor = <<>>
    /\ decoded = NotDecoded
    /\ likes = EmptyBag
    /\ replies = EmptyBag

Next ==
    \/ Tick
    \/ \E u \in Authors : CreateNew(u)
    \/ \E post \in pending : CreateSave(post)
    \/ \E post \in posts, u \in Users : DeleteFind(post._id, u)
    \/ \E del \in BagToSet(dels) : DeleteSave(del)
    \/ \E l \in WalkLimits, ok \in BOOLEAN : GetFirst(l, ok)
    \/ \E l \in WalkLimits, ok \in BOOLEAN : GetNext(l, ok)

NextWalk ==
    \/ \E l \in LimitParams, ok \in BOOLEAN : GetFirst(l, ok)
    \/ \E l \in LimitParams, ok \in BOOLEAN : GetNext(l, ok)

NextRequest ==
    \/ \E l \in LimitParams, c \in RequestCursors : Request(l, c)
    \/ \E ok \in BOOLEAN : Handle(ok)
    \/ Deliver

NextLimit ==
    \/ \E l \in WideLimits : Request(l, Undefined)
    \/ \E ok \in BOOLEAN : Handle(ok)
    \/ Deliver

NextCodec == Decode

NextRoundTrip ==
    \/ \E post \in posts : Encode(post)
    \/ cursor # <<>> /\ Decode

\* the write paths interleaved with listings
NextWrites ==
    \/ \E u \in Authors : CreateNew(u)
    \/ \E post \in pending : CreateSave(post)
    \/ \E post \in posts, u \in Users : LikeFind(post._id, u)
    \/ \E like \in BagToSet(likes) : LikeSave(like)
    \/ \E post \in posts, u \in Users : DeleteFind(post._id, u)
    \/ \E del \in BagToSet(dels) : DeleteSave(del)
    \/ GetFirst(Undefined, TRUE)

\* like requests alone, two of them at a time
NextLike ==
    \/ \E post \in posts, u \in Users : LikeFind(post._id, u)
    \/ \E like \in BagToSet(likes) : LikeSave(like)

\* delete requests alone, from the owner and from another user, for ids the
\* collection holds or not
PostIds == {NewObjectId(n) : n \in 1..MaxPosts}

NextDelete ==
    \/ \E id \in PostIds, u \in Users : DeleteFind(id, u)
    \/ \E id \in PostIds, u \in Users : DeleteNotFound(id, u)
    \/ \E id \in PostIds, u \in Users : DeleteForbidden(id, u)
    \/ \E del \in BagToSet(dels) : DeleteSave(del)

Spec == Init /\ [][Next]_vars

SpecDelete == InitCollection /\ [][NextDelete]_vars

SpecLike == InitLimit /\ [][NextLike]_vars

SpecWrites == Init /\ [][NextWrites]_vars

SpecWalk == InitCollection /\ [][NextWalk]_vars

SpecRequest == InitCollection /\ [][NextRequest]_vars

SpecLimit == InitLimit /\ [][NextLimit]_vars

SpecCodec == InitCodec /\ [][NextCodec]_vars

SpecRoundTrip == InitRoundTrip /\ [][NextRoundTrip]_vars

(***************************************************************************)
(* Vocabulary of the properties.                                           *)
(***************************************************************************)
Live(db) == {p \in db : ~p.isDeleted}

PostOf(id) == CHOOSE p \in posts : p._id = id

\* e sorts before f in (createdAt descending, id descending) order
Precedes(e, f) ==
    \/ e.createdAt > f.createdAt
    \/ e.createdAt = f.createdAt /\ OidLess(f.id, e.id)

Descending(entries) ==
    \A i \in 1..Len(entries), j \in 1..Len(entries) :
        i < j => Precedes(entries[i], entries[j])

RECURSIVE Concat(_)
Concat(pages) ==
    IF Len(pages) = 0 THEN <<>>
    ELSE pages[1].posts \o Concat(SubSeq(pages, 2, Len(pages)))

EntryIds(entries) == {entries[k].id : k \in 1..Len(entries)}

WalkComplete == Len(walk) > 0 /\ ~walk[Len(walk)].hasMore

LimitsInRange == \A k \in 1..Len(walk) : walk[k].limit \in 1..MaxPageSize

\* the live posts of db that lie strictly after position (c, i)
AfterPosition(db, c, i) ==
    {p \in Live(db) :
        \/ p.createdAt < c
        \/ p.createdAt = c /\ p._id # i /\ ~OidLess(i, p._id)}

(***************************************************************************)
(* C1: a completed walk with limits in 1..50 over a collection that does   *)
(* not change returns, as the concatenation of its pages, exactly the      *)
(* non-deleted posts, each once, in (createdAt descending, id descending)  *)
(* order.  Checked under SpecWalk, where the collection never changes.     *)
(***************************************************************************)
ExactlyLive(entries) ==
    /\ EntryIds(entries) = Ids(Live(posts))
    /\ Len(entries) = Cardinality(Live(posts))
    /\ Descending(entries)
    /\ \A k \in 1..Len(entries) :
           entries[k].createdAt = PostOf(entries[k].id).createdAt

C1_CompleteWalk ==
    (WalkComplete /\ LimitsInRange) => ExactlyLive(Concat(walk))

C1_Witness ==
    /\ WalkComplete /\ LimitsInRange
    /\ Len(walk) >= 2
    /\ posts # Live(posts)
    /\ \E p \in Live(posts), q \in Live(posts) :
           /\ p # q /\ p.createdAt = q.createdAt
           /\ p._id \in EntryIds(walk[1].posts)
           /\ q._id \in EntryIds(walk[2].posts)

(***************************************************************************)
(* C2: a request with a valid cursor at position (c, i) and an effective   *)
(* limit L in 1..50 returns the first L (or all, if fewer) of the          *)
(* non-deleted posts with createdAt < c, or createdAt = c and id < i, in   *)
(* (createdAt descending, id descending) order.  Checked under             *)
(* SpecRequest, where resp answers req against posts.                      *)
(***************************************************************************)
ValidCursorServed ==
    /\ resp.status = 200
    /\ ~Falsy(req.after)
    /\ resp.limit \in 1..MaxPageSize

PositionOf(dec) == [createdAt |-> dec.createdAt, id |-> ObjectIdFrom(dec.id)]

ExpectedAt(position) == AfterPosition(posts, position.createdAt, position.id)

Expected == ExpectedAt(PositionOf(decodeCursor(req.after)))

FirstOf(expected, limit) ==
    /\ EntryIds(resp.posts) \subseteq Ids(expected)
    /\ Descending(resp.posts)
    /\ Len(resp.posts) = IF Cardinality(expected) < limit
                         THEN Cardinality(expected) ELSE limit
    /\ \A p \in expected :
           p._id \notin EntryIds(resp.posts) =>
               \A k \in 1..Len(resp.posts) :
                   Precedes(resp.posts[k], Transform(p))

C2_PageAfterCursor == ValidCursorServed => FirstOf(Expected, resp.limit)

TieSplitAt(position) ==
    \E p \in Live(posts), q \in Live(posts) :
        /\ p.createdAt = position.createdAt
        /\ q.createdAt = position.createdAt
        /\ OidLess(p._id, position.id)
        /\ q._id = position.id
        /\ p._id \in EntryIds(resp.posts)
        /\ q._id \notin EntryIds(resp.posts)

C2_Witness ==
    /\ ValidCursorServed
    /\ Cardinality(Expected) > resp.limit
    /\ TieSplitAt(PositionOf(decodeCursor(req.after)))

(***************************************************************************)
(* C3: in a walk interleaved with creations and soft deletions, no post id *)
(* appears in more than one page, and once the walk has reached            *)
(* hasMore = false every post that was stored before the first request and *)
(* is still non-deleted appears in exactly one page.  Checked under Spec,  *)
(* whose walks use limits in 1..50.                                        *)
(***************************************************************************)
Occurrences(entries, id) ==
    Cardinality({k \in 1..Len(entries) : entries[k].id = id})

NoRepeatNoGap(entries) ==
    /\ \A p \in posts : Occurrences(entries, p._id) <= 1
    /\ WalkComplete =>
           \A p \in Live(posts) :
               p._id \in seen.first => Occurrences(entries, p._id) = 1

C3_WalkUnderWrites == LimitsInRange /\ NoRepeatNoGap(Concat(walk))

C3_Witness ==
    /\ WalkComplete
    /\ Len(walk) >= 2
    /\ \E p \in Live(posts) : p._id \in seen.first
    /\ \E p \in posts : p._id \notin seen.first
    /\ \E p \in posts : p.isDeleted /\ p._id \in EntryIds(Concat(walk))

(***************************************************************************)
(* C4: a post created while a walk is in progress, with a createdAt newer  *)
(* than that of a cursor of the walk, is in no page fetched with that      *)
(* cursor or with a cursor derived from it.                                *)
(***************************************************************************)
Boundary(k) == decodeCursor(walk[k].nextCursor)

CreatedNewerThan(boundary) ==
    {p \in posts : p._id \notin seen.first /\ p.createdAt > boundary.createdAt}

InvisibleAfter(k, newer) ==
    \A j \in (k + 1)..Len(walk) : Ids(newer) \cap EntryIds(walk[j].posts) = {}

C4_NewerPostInvisible ==
    \A k \in 1..(Len(walk) - 1) :
        Boundary(k).ok /\ InvisibleAfter(k, CreatedNewerThan(Boundary(k)))

VisibleNewer(newer) == \E p \in newer : ~p.isDeleted /\ p._id \in seen.last

C4_Witness ==
    /\ Len(walk) >= 2
    /\ Len(walk[Len(walk)].posts) > 0
    /\ VisibleNewer(CreatedNewerThan(Boundary(Len(walk) - 1)))

(***************************************************************************)
(* C5: in a successful listing response hasMore is true exactly when a     *)
(* matching post exists beyond the last returned one, and nextCursor is    *)
(* null exactly when hasMore is false.                                     *)
(***************************************************************************)
Matching ==
    IF Falsy(req.after) THEN Live(posts) ELSE Expected

C5_HasMoreExact ==
    resp.status = 200 =>
        /\ resp.hasMore <=> (Cardinality(Matching) > Len(resp.posts))
        /\ (resp.nextCursor = Null) <=> ~resp.hasMore

(***************************************************************************)
(* C6: the effective limit echoed in pagination.limit lies in 1..50; it is *)
(* 10 when the parameter is absent or not numeric, 50 when the parameter   *)
(* exceeds 50, and 1 when the parameter is 0 or below.                     *)
(***************************************************************************)
C6_LimitClamped ==
    resp.status = 200 =>
        /\ resp.limit \in 1..MaxPageSize
        /\ parseInt(req.limit).isNaN => resp.limit = DefaultLimit
        /\ (~parseInt(req.limit).isNaN /\ parseInt(req.limit).value > MaxPageSize)
               => resp.limit = MaxPageSize
        /\ (~parseInt(req.limit).isNaN /\ parseInt(req.limit).value <= 0)
               => resp.limit = 1

(***************************************************************************)
(* C7: in a successful listing response count is the number of posts, at   *)
(* most pagination.limit, and the query fetched at most                    *)
(* pagination.limit + 1 records.                                           *)
(***************************************************************************)
C7_CountWithinLimit ==
    resp.status = 200 =>
        /\ resp.count = Len(resp.posts)
        /\ resp.count <= resp.limit
        /\ resp.fetched <= resp.limit + 1

(***************************************************************************)
(* C8: a request whose after parameter fails to decode is answered 400     *)
(* "Invalid cursor", with no query issued and no posts.  As stated, for    *)
(* every value of the parameter (C8_EveryUndecodable); as the handler      *)
(* does it, for every non-empty value (C8_InvalidCursorRejected).          *)
(***************************************************************************)
Rejected ==
    /\ resp.status = 400
    /\ resp.error = "Invalid cursor"
    /\ resp.queries = 0
    /\ resp.posts = <<>>

C8_EveryUndecodable ==
    (resp.status # 0 /\ req.after # Undefined /\ ~decodeCursor(req.after).ok)
        => Rejected

C8_InvalidCursorRejected ==
    (resp.status # 0 /\ ~Falsy(req.after) /\ ~decodeCursor(req.after).ok)
        => Rejected

C8_Witness ==
    /\ Rejected
    /\ ~Falsy(req.after)
    /\ Live(posts) # {}

(***************************************************************************)
(* C9: decodeCursor fails with "Malformed cursor" on the empty token, on a *)
(* token whose text has no separator, on one whose timestamp part is       *)
(* missing or is not a date, and on one whose id part is missing or is not *)
(* a valid ObjectId.  Checked under SpecCodec.                             *)
(***************************************************************************)
SeparatorsAt(text) == {k \in 1..Len(text) : text[k] = Separator}

NthSeparator(seps, n) ==
    CHOOSE k \in seps : Cardinality({j \in seps : j < k}) = n - 1

TimestampOf(text, seps) ==
    IF seps = {} THEN text ELSE SubSeq(text, 1, NthSeparator(seps, 1) - 1)

IdOf(text, seps) ==
    IF seps = {} THEN <<>>
    ELSE IF Cardinality(seps) = 1
    THEN SubSeq(text, NthSeparator(seps, 1) + 1, Len(text))
    ELSE SubSeq(text, NthSeparator(seps, 1) + 1, NthSeparator(seps, 2) - 1)

Shape(text, seps) ==
    [separators |-> Cardinality(seps), timestamp |-> TimestampOf(text, seps),
     id |-> IdOf(text, seps)]

ShapeOf(text) == Shape(text, SeparatorsAt(text))

CursorShape == ShapeOf(Base64Decode(cursor))

Decoded == decoded # NotDecoded

MustReject(shape) ==
    \/ cursor = <<>>
    \/ shape.separators = 0
    \/ shape.timestamp = <<>>
    \/ DateParse(shape.timestamp).isNaN
    \/ shape.id = <<>>
    \/ ~ObjectIdIsValid(shape.id)

IdCheckFails(shape) ==
    /\ shape.separators > 0
    /\ ~DateParse(shape.timestamp).isNaN
    /\ shape.id # <<>>
    /\ ~ObjectIdIsValid(shape.id)

C9_MalformedRejected ==
    (Decoded /\ MustReject(CursorShape)) =>
        (~decoded.ok /\ decoded.message = "Malformed cursor")

C9_Witness ==
    /\ Decoded
    /\ ~decoded.ok
    /\ IdCheckFails(CursorShape)

(***************************************************************************)
(* C10: decodeCursor fails on every token whose text is not exactly        *)
(* timestamp, separator, identifier: in particular on text with more than  *)
(* one separator.                                                          *)
(***************************************************************************)
C10_TwoPartShape ==
    (Decoded /\ CursorShape.separators # 1) => ~decoded.ok

(***************************************************************************)
(* C11.  Round trip: decoding the token encodeCursor made of a stored      *)
(* post's (createdAt, _id) succeeds and gives back the same instant and    *)
(* the same id; hence no other position has that token.                    *)
(***************************************************************************)
RoundTripPositions == RoundTripTimes \X RoundTripIds

SamePosition(dec, post) ==
    /\ dec.ok
    /\ dec.createdAt = post.createdAt
    /\ dec.id = ObjectIdToString(post._id)
    /\ ObjectIdFrom(dec.id) = post._id

C11_RoundTrip ==
    cursor # <<>> =>
        \A post \in posts :
            /\ decoded # NotDecoded => SamePosition(decoded, post)
            /\ \A q \in RoundTripPositions :
                   q # <<post.createdAt, post._id>>
                       => encodeCursor(q[1], q[2]) # cursor

C11_Witness ==
    /\ cursor # <<>>
    /\ decoded.ok
    /\ \E post \in posts :
         /\ post.createdAt % 1000 # 0
         /\ post.createdAt >= MsPerDay
         /\ \E k \in 1..12 : post._id[k] >= 160

(***************************************************************************)
(* C12.  Every token decodeCursor rejects is rejected alike: the failure   *)
(* it reports and the response to the listing request carry status 400,    *)
(* error "Invalid cursor" and message "Malformed cursor", whichever of its *)
(* checks failed.  C12_AnyTokenRejectedAlike states it of every token,     *)
(* C12_RejectedAlike of every non-empty one.                               *)
(***************************************************************************)
SameFailure(dec, r) ==
    /\ dec.message = "Malformed cursor"
    /\ r.status = 400
    /\ r.error = "Invalid cursor"
    /\ r.message = dec.message

C12_AnyTokenRejectedAlike ==
    (resp.status # 0 /\ req.after # Undefined)
        => (~decodeCursor(req.after).ok
               => SameFailure(decodeCursor(req.after), resp))

C12_RejectedAlike ==
    (resp.status # 0 /\ ~Falsy(req.after))
        => (~decodeCursor(req.after).ok
               => SameFailure(decodeCursor(req.after), resp))

C12_Witness ==
    /\ resp.status = 400
    /\ resp.message = "Malformed cursor"
    /\ decodeCursorTry(req.after).message = "Invalid date in cursor"

(***************************************************************************)
(* C13.  Soft-delete exclusion: a listing whose query runs when a post is  *)
(* stored as deleted does not return that post, with or without a cursor,  *)
(* also when the cursor was made from that post; the page holds non-deleted *)
(* posts only, and a page with hasMore = false holds all of them that lie  *)
(* after the cursor.  Stated of every step that adds a page to the walk.   *)
(***************************************************************************)
Deleted(db) == {p \in db : p.isDeleted}

AfterCursorOf(pages, k, db) ==
    IF k = 1 THEN Live(db)
    ELSE AfterPosition(db, decodeCursor(pages[k - 1].nextCursor).createdAt,
                       ObjectIdFrom(decodeCursor(pages[k - 1].nextCursor).id))

PageExcludesDeleted(pages, db) ==
    LET k == Len(pages)
        page == pages[k]
    IN  /\ EntryIds(page.posts) \cap Ids(Deleted(db)) = {}
        /\ EntryIds(page.posts) \subseteq Ids(Live(db))
        /\ ~page.hasMore
             => EntryIds(page.posts) = Ids(AfterCursorOf(pages, k, db))

C13_DeletedNeverListed ==
    [][(walk' # walk /\ Len(walk') > 0) => PageExcludesDeleted(walk', posts)]_vars

C13_Witness ==
    /\ Len(walk) >= 2
    /\ ~walk[Len(walk)].hasMore
    /\ Len(walk[Len(walk)].posts) > 0
    /\ LET before == walk[Len(walk) - 1].posts
       IN  /\ before[Len(before)].id \in Ids(Deleted(posts))
           /\ \E p \in Deleted(posts) :
                /\ p._id \in seen.last
                /\ p._id \notin EntryIds(Concat(walk))
                /\ Precedes(before[Len(before)], Transform(p))

(***************************************************************************)
(* C14.  In a response with hasMore = true, nextCursor decodes to the      *)
(* createdAt and id of the last post of that response, which is the last   *)
(* retained record and not the extra record the query fetched.             *)
(***************************************************************************)
LastOf(entries) == entries[Len(entries)]

CursorOfLast(r, dec) ==
    /\ r.nextCursor # Null
    /\ Len(r.posts) > 0
    /\ Len(r.posts) < r.fetched
    /\ dec.ok
    /\ dec.createdAt = LastOf(r.posts).createdAt
    /\ ObjectIdFrom(dec.id) = LastOf(r.posts).id

C14_CursorOfLastRetained ==
    (resp.status = 200 /\ resp.hasMore)
        => CursorOfLast(resp, decodeCursor(resp.nextCursor))

(***************************************************************************)
(* C15.  isDeleted is monotonic: over every interleaving of creations,     *)
(* likes, deletions and listings, a post stored as deleted is stored as    *)
(* deleted after every later step.                                         *)
(***************************************************************************)
StaysDeleted(before, after) ==
    \A p \in before :
        p.isDeleted => \E q \in after : q._id = p._id /\ q.isDeleted

C15_DeletedStaysDeleted == [][StaysDeleted(posts, posts')]_vars

C15_Witness ==
    \E p \in posts, like \in BagToSet(likes) :
        /\ p.isDeleted
        /\ like.postId = p._id
        /\ ~like.doc.isDeleted
        /\ p.__v > like.doc.__v

(***************************************************************************)
(* C16.  A listing is read-only and stateless: the step that answers a     *)
(* listing request changes nothing but the response, neither the posts nor *)
(* anything a later request reads, and with an absent or a valid cursor it *)
(* issues exactly one query.                                               *)
(***************************************************************************)
AbsentOrValid(after) == after = Undefined \/ decodeCursor(after).ok

Answered == resp.status = 0 /\ resp'.status # 0

C16_ReadOnlyOneQuery ==
    [][Answered =>
          /\ UNCHANGED <<posts, pending, counter, now, dels, req, walk, seen,
                         cursor, decoded, likes, replies>>
          /\ AbsentOrValid(req.after) => resp'.queries = 1]_vars

C16_Witness ==
    /\ resp.status = 200
    /\ resp.queries = 1
    /\ ~Falsy(req.after)
    /\ resp.nextCursor # Null
    /\ Deleted(posts) # {}

(***************************************************************************)
(* C17.  Like bookkeeping: over every interleaving of like requests,       *)
(* concurrent ones included, each stored post has likes.count >= 0,        *)
(* likes.count equal to the number of ids in likes.userIds, and no user id *)
(* twice in likes.userIds.                                                 *)
(***************************************************************************)
NoDuplicates(userIds) ==
    \A i \in 1..Len(userIds), j \in 1..Len(userIds) :
        i # j => userIds[i] # userIds[j]

C17_LikesConsistent ==
    \A p \in posts :
        /\ p.likes.count >= 0
        /\ p.likes.count = Len(p.likes.userIds)
        /\ NoDuplicates(p.likes.userIds)

(***************************************************************************)
(* C18.  Delete requests on one post: over every interleaving, at most one *)
(* request for a post is answered with success; a request of the owner is  *)
(* answered with success or 404; a request of another user is never        *)
(* answered with success, is answered 403 while the post is not deleted,   *)
(* and that answer leaves the posts as they are.                           *)
(***************************************************************************)
RECURSIVE CopiesOf(_, _)
CopiesOf(all, S) ==
    IF S = {} THEN 0
    ELSE LET reply == CHOOSE r \in S : TRUE
         IN  CopiesIn(reply, all) + CopiesOf(all, S \ {reply})

Successes(all, postId) ==
    CopiesOf(all, {reply \in BagToSet(all) :
                      reply.postId = postId /\ reply.status = 200})

OwnerOf(postId) ==
    IF \E p \in posts : p._id = postId THEN PostOf(postId).user ELSE 0

Added(all, more) ==
    {reply \in BagToSet(more) : CopiesIn(reply, more) > CopiesIn(reply, all)}

AnsweredAsClaimed(reply) ==
    IF reply.userId = OwnerOf(reply.postId)
    THEN reply.status \in {200, 404}
    ELSE /\ reply.status \in {403, 404}
         /\ reply.postId \in Ids(Live(posts)) => reply.status = 403
         /\ reply.status = 403 => posts' = posts

C18_AtMostOneSuccess ==
    [][/\ \A id \in PostIds : Successes(replies', id) <= 1
       /\ \A reply \in Added(replies, replies') : AnsweredAsClaimed(reply)]_vars

(***************************************************************************)
(* C19.  Walk progress and termination: the position in each nextCursor    *)
(* of a walk lies strictly after the position of the cursor the request    *)
(* carried, and a walk that has not yet received hasMore = false holds a   *)
(* nextCursor to go on with, so that over finitely many positions it       *)
(* reaches a page with hasMore = false, whatever limits the caller sends.  *)
(***************************************************************************)
PositionIn(token) ==
    [createdAt |-> decodeCursor(token).createdAt,
     id |-> ObjectIdFrom(decodeCursor(token).id)]

Progresses(pages) ==
    \A k \in 2..Len(pages) :
        pages[k].nextCursor # Null
            => Precedes(PositionIn(pages[k - 1].nextCursor),
                        PositionIn(pages[k].nextCursor))

CanGoOn(pages) ==
    (Len(pages) > 0 /\ pages[Len(pages)].hasMore)
        => pages[Len(pages)].nextCursor # Null

C19_WalkTerminates == Progresses(walk) /\ CanGoOn(walk)

(***************************************************************************)
(* C20.  A response with hasMore = true holds exactly pagination.limit     *)
(* posts and a nextCursor; a response with fewer posts than the limit has  *)
(* hasMore = false and no nextCursor.                                      *)
(***************************************************************************)
FullWhenMore(count, limit, hasMore, nextCursor) ==
    /\ hasMore => (count = limit /\ nextCursor # Null)
    /\ count < limit => (~hasMore /\ nextCursor = Null)

C20_FullPageWhenMore ==
    resp.status = 200
        => FullWhenMore(resp.count, resp.limit, resp.hasMore, resp.nextCursor)

====
